---- MODULE Spec2Model ----
(***************************************************************************)
(* Model of calculator.cpp: tokenize, infixToPostfix, evalPostfix and the  *)
(* read loop of main.                                                      *)
(*                                                                         *)
(* Strings are sequences of one-character strings.  A double is modelled   *)
(* as an exact rational <<"rat", n, d>> while numerator and denominator    *)
(* stay inside the window MaxMag; a double the model does not compute      *)
(* (out of the window, irrational, inf, nan) is the term                   *)
(* <<"opq", op, a, b>> of the operation that produced it, so two equal     *)
(* terms are the same double.                                              *)
(***************************************************************************)
EXTENDS Integers, Sequences, FiniteSets, TLC

VARIABLES
    pc,          \* position in main / the pipeline
    line,        \* main: line (after the chaining prefix is added)
    i,           \* tokenize: i
    tokens,      \* tokenize: tokens; infixToPostfix: in
    k,           \* infixToPostfix: index of tok in the range-for over in
    out,         \* infixToPostfix: out; evalPostfix: pf
    ops,         \* infixToPostfix: ops (top is the last element)
    m,           \* evalPostfix: index of tok in the range-for over pf
    st,          \* evalPostfix: st (top is the last element)
    applied,     \* evalPostfix: the operands read by the latest operator/function
    res,         \* outcome of the try block of main for the current line
    history,     \* main: history
    lastResult,  \* main: lastResult
    hasResult,   \* main: hasResult
    nread        \* number of lines read so far (bounds the model only)

vars == <<pc, line, i, tokens, k, out, ops, m, st, applied, res,
          history, lastResult, hasResult, nread>>

-----------------------------------------------------------------------------
(* Bounds of the model *)

MaxMag == 30000
MaxLineLen == 3
MaxToks == 4
MaxWFToks == 7
MaxLines == 3

-----------------------------------------------------------------------------
(* Characters *)

Digits == {"0", "1", "2", "3", "4", "5", "6", "7", "8", "9"}
Letters == {"a", "c", "e", "g", "h", "i", "l", "n", "o", "p", "q", "r", "s",
            "t", "x", "y", "E"}

isdigit(c) == c \in Digits
isalpha(c) == c \in Letters
isspace(c) == c = " "

DigitVal(c) ==
    CASE c = "0" -> 0 [] c = "1" -> 1 [] c = "2" -> 2 [] c = "3" -> 3
      [] c = "4" -> 4 [] c = "5" -> 5 [] c = "6" -> 6 [] c = "7" -> 7
      [] c = "8" -> 8 [] c = "9" -> 9

DigitChar(n) ==
    CASE n = 0 -> "0" [] n = 1 -> "1" [] n = 2 -> "2" [] n = 3 -> "3"
      [] n = 4 -> "4" [] n = 5 -> "5" [] n = 6 -> "6" [] n = 7 -> "7"
      [] n = 8 -> "8" [] n = 9 -> "9"

\* expr.substr(pos, len), 1-based; clamps at the end of the string
substr(s, pos, len) ==
    SubSeq(s, pos, IF pos + len - 1 > Len(s) THEN Len(s) ELSE pos + len - 1)

-----------------------------------------------------------------------------
(* Doubles *)

Rat(n, d) == <<"rat", n, d>>
Opq(op, a, b) == <<"opq", op, a, b>>
IsRat(v) == v[1] = "rat"
Num(v) == v[2]
Den(v) == v[3]
Zero == Rat(0, 1)
One == Rat(1, 1)

Abs(n) == IF n < 0 THEN -n ELSE n

RECURSIVE Gcd(_, _)
Gcd(a, b) == IF b = 0 THEN a ELSE Gcd(b, a % b)

\* the double n/d (d # 0), or the term op(a, b) when it leaves the window
Mk(op, a, b, n, d) ==
    LET g == Gcd(Abs(n), Abs(d))
        nn == (IF d < 0 THEN -n ELSE n) \div g
        dd == Abs(d) \div g
    IN  IF Abs(nn) <= MaxMag /\ dd <= MaxMag THEN Rat(nn, dd) ELSE Opq(op, a, b)

Add(a, b) ==
    IF IsRat(a) /\ IsRat(b)
    THEN Mk("+", a, b, Num(a) * Den(b) + Num(b) * Den(a), Den(a) * Den(b))
    ELSE Opq("+", a, b)

Sub(a, b) ==
    IF IsRat(a) /\ IsRat(b)
    THEN Mk("-", a, b, Num(a) * Den(b) - Num(b) * Den(a), Den(a) * Den(b))
    ELSE Opq("-", a, b)

Mul(a, b) ==
    IF IsRat(a) /\ IsRat(b)
    THEN Mk("*", a, b, Num(a) * Num(b), Den(a) * Den(b))
    ELSE Opq("*", a, b)

\* a / b; a division by zero gives inf or nan
Div(a, b) ==
    IF IsRat(a) /\ IsRat(b) /\ b # Zero
    THEN Mk("/", a, b, Num(a) * Den(b), Den(a) * Num(b))
    ELSE Opq("/", a, b)

\* acc * a^e for e >= 0, stopping as soon as the product leaves the window
RECURSIVE PowAcc(_, _, _)
PowAcc(acc, a, e) ==
    IF e = 0 \/ ~IsRat(acc) THEN acc ELSE PowAcc(Mul(acc, a), a, e - 1)

\* pow(a, b) of <cmath>
Pow(a, b) ==
    IF ~(IsRat(a) /\ IsRat(b)) \/ Den(b) # 1 THEN Opq("pow", a, b)
    ELSE LET e == Num(b)
             p == IF e = 0 \/ a = One THEN One
                  ELSE IF a = Zero THEN Zero
                  ELSE IF a = Rat(-1, 1) THEN (IF Abs(e) % 2 = 0 THEN One ELSE a)
                  ELSE PowAcc(One, a, Abs(e))
         IN  IF ~IsRat(p) THEN Opq("pow", a, b)
             ELSE IF e >= 0 THEN p
             ELSE IF p = Zero THEN Opq("pow", a, b)
             ELSE Rat(IF Num(p) < 0 THEN -Den(p) ELSE Den(p), Abs(Num(p)))

IsSquare(n) == \E r \in 0..n : r * r = n
ISqrt(n) == CHOOSE r \in 0..n : r * r = n

\* sin, cos, tan, sqrt, log10, log, exp of <cmath>, by the name of the token
ApplyFunction(name, v) ==
    CASE name = <<"s", "q", "r", "t">> ->
            IF IsRat(v) /\ Num(v) >= 0 /\ IsSquare(Num(v)) /\ IsSquare(Den(v))
            THEN Rat(ISqrt(Num(v)), ISqrt(Den(v))) ELSE Opq("sqrt", v, <<>>)
      [] name = <<"s", "i", "n">> -> IF v = Zero THEN Zero ELSE Opq("sin", v, <<>>)
      [] name = <<"c", "o", "s">> -> IF v = Zero THEN One ELSE Opq("cos", v, <<>>)
      [] name = <<"t", "a", "n">> -> IF v = Zero THEN Zero ELSE Opq("tan", v, <<>>)
      [] name = <<"l", "o", "g">> -> IF v = One THEN Zero ELSE Opq("log10", v, <<>>)
      [] name = <<"l", "n">> -> IF v = One THEN Zero ELSE Opq("log", v, <<>>)
      [] name = <<"e", "x", "p">> -> IF v = Zero THEN One ELSE Opq("exp", v, <<>>)

-----------------------------------------------------------------------------
(* stod and to_string *)

RECURSIVE DigitsEnd(_, _)
\* first position >= p of s that holds no digit
DigitsEnd(s, p) ==
    IF p <= Len(s) /\ isdigit(s[p]) THEN DigitsEnd(s, p + 1) ELSE p

RECURSIVE StripLeadingZeros(_)
StripLeadingZeros(s) ==
    IF s # <<>> /\ Head(s) = "0" THEN StripLeadingZeros(Tail(s)) ELSE s

RECURSIVE StripTrailingZeros(_)
StripTrailingZeros(s) ==
    IF s # <<>> /\ s[Len(s)] = "0"
    THEN StripTrailingZeros(SubSeq(s, 1, Len(s) - 1)) ELSE s

RECURSIVE DecVal(_)
DecVal(s) ==
    IF s = <<>> THEN 0
    ELSE DecVal(SubSeq(s, 1, Len(s) - 1)) * 10 + DigitVal(s[Len(s)])

RECURSIVE Pow10(_)
Pow10(n) == IF n = 0 THEN 1 ELSE 10 * Pow10(n - 1)

StodInvalid == <<"invalid_argument">>

\* stod(text) for a text that starts with a digit or '.': the double of the
\* longest prefix  digits [. digits] [(e|E) [+|-] digits]  with a digit in
\* the mantissa, or StodInvalid (stod throws) when there is no such prefix.
\* Literals are taken to lie in the range of double.
Stod(text) ==
    LET p1 == DigitsEnd(text, 1)
        hasDot == p1 <= Len(text) /\ text[p1] = "."
        p2 == IF hasDot THEN DigitsEnd(text, p1 + 1) ELSE p1
        intD == StripLeadingZeros(SubSeq(text, 1, p1 - 1))
        fracD == IF hasDot THEN StripTrailingZeros(SubSeq(text, p1 + 1, p2 - 1))
                 ELSE <<>>
        valid == (p1 - 1) + (IF hasDot THEN p2 - p1 - 1 ELSE 0) > 0
        hasE == p2 <= Len(text) /\ text[p2] \in {"e", "E"}
        signed == hasE /\ p2 + 1 <= Len(text) /\ text[p2 + 1] \in {"+", "-"}
        p3 == IF signed THEN p2 + 2 ELSE p2 + 1
        p4 == IF hasE THEN DigitsEnd(text, p3) ELSE p2
        expD == IF hasE /\ p4 > p3 THEN StripLeadingZeros(SubSeq(text, p3, p4 - 1))
                ELSE <<>>
        lit == Opq("lit", <<"txt", text>>, <<>>)
    IN  IF ~valid THEN StodInvalid
        ELSE IF Len(intD) > 4 \/ Len(fracD) > 4 \/ Len(expD) > 4 THEN lit
        ELSE LET mant == Add(Rat(DecVal(intD), 1),
                             Mk("lit", text, <<>>, DecVal(fracD), Pow10(Len(fracD))))
                 e == DecVal(expD)
                 scale == Pow(Rat(10, 1),
                              Rat(IF signed /\ text[p2 + 1] = "-" THEN -e ELSE e, 1))
                 v == Mul(mant, scale)
             IN  IF IsRat(v) THEN v ELSE lit

RECURSIVE IntDigits(_)
\* decimal digits of n >= 0, most significant first
IntDigits(n) ==
    IF n < 10 THEN <<n>> ELSE Append(IntDigits(n \div 10), n % 10)

RECURSIVE FracDigits(_, _, _)
\* the next cnt decimal digits of r/d (0 <= r < d)
FracDigits(r, d, cnt) ==
    IF cnt = 0 THEN <<>>
    ELSE <<(r * 10) \div d>> \o FracDigits((r * 10) % d, d, cnt - 1)

RECURSIVE FracRem(_, _, _)
\* the remainder left after cnt decimal digits of r/d
FracRem(r, d, cnt) ==
    IF cnt = 0 THEN r ELSE FracRem((r * 10) % d, d, cnt - 1)

RECURSIVE IncDigits(_)
\* the digit sequence plus one in the last place
IncDigits(ds) ==
    IF ds = <<>> THEN <<1>>
    ELSE IF ds[Len(ds)] < 9
         THEN SubSeq(ds, 1, Len(ds) - 1) \o <<ds[Len(ds)] + 1>>
         ELSE IncDigits(SubSeq(ds, 1, Len(ds) - 1)) \o <<0>>

\* std::to_string(double), i.e. printf("%f"): six digits after the point,
\* rounded to nearest (ties to even); defined for the doubles the model
\* computes exactly
to_string(v) ==
    LET a == Abs(Num(v))
        d == Den(v)
        raw == IntDigits(a \div d) \o FracDigits(a % d, d, 6)
        r6 == FracRem(a % d, d, 6)
        up == 2 * r6 > d \/ (2 * r6 = d /\ raw[Len(raw)] % 2 = 1)
        ds == IF up THEN IncDigits(raw) ELSE raw
        n == Len(ds)
    IN  (IF Num(v) < 0 THEN <<"-">> ELSE <<>>)
        \o [j \in 1..(n - 6) |-> DigitChar(ds[j])]
        \o <<".">>
        \o [j \in 1..6 |-> DigitChar(ds[n - 6 + j])]

-----------------------------------------------------------------------------
(* Tokens and the static tables *)

Token(text, type) == [text |-> text, type |-> type]

\* opPrec with the rows of * / and of + - exchanged
opPrecSwapped(text) ==
    CASE text = <<"^">> -> 4 [] text = <<"*", "*">> -> 4
      [] text = <<"*">> -> 2 [] text = <<"/">> -> 2
      [] text = <<"+">> -> 3 [] text = <<"-">> -> 3

\* opPrec.at(text)
opPrec(text) ==
    CASE text = <<"^">> -> 4 [] text = <<"*", "*">> -> 4
      [] text = <<"*">> -> 3 [] text = <<"/">> -> 3
      [] text = <<"+">> -> 2 [] text = <<"-">> -> 2

\* opRight without its row for **
opRightCaretOnly(text) == text = <<"^">>

\* opRight.count(text)
opRight(text) == text \in {<<"^">>, <<"*", "*">>}

functions ==
    {<<"s", "i", "n">>, <<"c", "o", "s">>, <<"t", "a", "n">>,
     <<"s", "q", "r", "t">>, <<"l", "o", "g">>, <<"l", "n">>, <<"e", "x", "p">>}

\* constants.count(name)
IsConstant(name) == name \in {<<"p", "i">>, <<"e">>}

\* to_string(constants.at(name)): to_string(M_PI), to_string(M_E)
ConstantText(name) ==
    IF name = <<"p", "i">> THEN <<"3", ".", "1", "4", "1", "5", "9", "3">>
    ELSE <<"2", ".", "7", "1", "8", "2", "8", "2">>

\* the regular expression of isNumber:
\*   ^[+-]?(\d+(\.\d*)?|\.\d+)([eE][+-]?\d+)?$
isNumber(s) ==
    LET p0 == IF s # <<>> /\ s[1] \in {"+", "-"} THEN 2 ELSE 1
        p1 == DigitsEnd(s, p0)
        hasDot == p1 <= Len(s) /\ s[p1] = "."
        p2 == IF hasDot THEN DigitsEnd(s, p1 + 1) ELSE p1
        mantOk == p1 > p0 \/ (hasDot /\ p2 > p1 + 1)
        hasE == p2 <= Len(s) /\ s[p2] \in {"e", "E"}
        p3 == IF hasE /\ p2 + 1 <= Len(s) /\ s[p2 + 1] \in {"+", "-"}
              THEN p2 + 2 ELSE p2 + 1
        p4 == IF hasE THEN DigitsEnd(s, p3) ELSE p2
    IN  mantOk /\ (hasE => p4 > p3) /\ p4 = Len(s) + 1

Error(what) == [kind |-> "error", what |-> what]
Value(v) == [kind |-> "value", v |-> v]
NoRes == [kind |-> "none"]

\* evalPostfix: the operands the loop body read at pf[at], and whether it
\* read them from an empty stack
Applied(at, text, a, b, ub) ==
    [at |-> at, op |-> text, a |-> a, b |-> b, ub |-> ub]
NotApplied == [at |-> 0]

-----------------------------------------------------------------------------
(* tokenize: one action per iteration of the while loop *)

\* the scan of the mantissa stopping at '.' as well
MantissaEndDigitsOnly(expr, j) == DigitsEnd(expr, j)

RECURSIVE MantissaEnd(_, _)
\* while (j<n && (isdigit(expr[j])||expr[j]=='.')) j++;
MantissaEnd(expr, j) ==
    IF j <= Len(expr) /\ (isdigit(expr[j]) \/ expr[j] = ".")
    THEN MantissaEnd(expr, j + 1) ELSE j

\* the j at which the number branch cuts the token that starts at i
NumberEnd(expr, ii) ==
    LET j1 == MantissaEnd(expr, ii)
    IN  IF j1 <= Len(expr) /\ expr[j1] \in {"e", "E"}
        THEN LET j2 == j1 + 1
                 j3 == IF j2 <= Len(expr) /\ expr[j2] \in {"+", "-"}
                       THEN j2 + 1 ELSE j2
             IN  DigitsEnd(expr, j3)
        ELSE j1

RECURSIVE NameEnd(_, _)
\* while (j<n && isalpha(expr[j])) j++;
NameEnd(expr, j) ==
    IF j <= Len(expr) /\ isalpha(expr[j]) THEN NameEnd(expr, j + 1) ELSE j

IsPowPow(expr, ii) == ii + 1 <= Len(expr) /\ substr(expr, ii, 2) = <<"*", "*">>
IsOpChar(c) == c \in {"+", "-", "*", "/", "^"}

InLex == pc = "tokenize" /\ i <= Len(line)

LexFrame == UNCHANGED <<line, k, out, ops, m, st, applied, history, lastResult,
                        hasResult, nread>>

LexSpace ==
    /\ InLex /\ isspace(line[i])
    /\ i' = i + 1
    /\ UNCHANGED <<pc, tokens, res>> /\ LexFrame

LexNumber ==
    /\ InLex /\ (isdigit(line[i]) \/ line[i] = ".")
    /\ LET j == NumberEnd(line, i)
       IN  /\ tokens' = Append(tokens, Token(SubSeq(line, i, j - 1), "NUMBER"))
           /\ i' = j
    /\ UNCHANGED <<pc, res>> /\ LexFrame

LexLeftParen ==
    /\ InLex /\ line[i] = "("
    /\ tokens' = Append(tokens, Token(<<"(">>, "LEFT_PAREN"))
    /\ i' = i + 1
    /\ UNCHANGED <<pc, res>> /\ LexFrame

LexRightParen ==
    /\ InLex /\ line[i] = ")"
    /\ tokens' = Append(tokens, Token(<<")">>, "RIGHT_PAREN"))
    /\ i' = i + 1
    /\ UNCHANGED <<pc, res>> /\ LexFrame

LexPowPow ==
    /\ InLex /\ IsPowPow(line, i)
    /\ tokens' = Append(tokens, Token(<<"*", "*">>, "OPERATOR"))
    /\ i' = i + 2
    /\ UNCHANGED <<pc, res>> /\ LexFrame

LexOperator ==
    /\ InLex /\ ~IsPowPow(line, i) /\ IsOpChar(line[i])
    /\ tokens' = Append(tokens, Token(<<line[i]>>, "OPERATOR"))
    /\ i' = i + 1
    /\ UNCHANGED <<pc, res>> /\ LexFrame

LexFunction ==
    /\ InLex /\ isalpha(line[i])
    /\ LET j == NameEnd(line, i)
           name == SubSeq(line, i, j - 1)
       IN  /\ name \in functions
           /\ tokens' = Append(tokens, Token(name, "FUNCTION"))
           /\ i' = j
    /\ UNCHANGED <<pc, res>> /\ LexFrame

LexConstant ==
    /\ InLex /\ isalpha(line[i])
    /\ LET j == NameEnd(line, i)
           name == SubSeq(line, i, j - 1)
       IN  /\ name \notin functions /\ IsConstant(name)
           /\ tokens' = Append(tokens, Token(ConstantText(name), "NUMBER"))
           /\ i' = j
    /\ UNCHANGED <<pc, res>> /\ LexFrame

LexUnknownName ==
    /\ InLex /\ isalpha(line[i])
    /\ LET name == SubSeq(line, i, NameEnd(line, i) - 1)
       IN  name \notin functions /\ ~IsConstant(name)
    /\ pc' = "thrown"
    /\ res' = Error("Unknown name")
    /\ UNCHANGED <<i, tokens>> /\ LexFrame

LexInvalid ==
    /\ InLex
    /\ ~isspace(line[i]) /\ ~isdigit(line[i]) /\ line[i] \notin {".", "(", ")"}
    /\ ~IsOpChar(line[i]) /\ ~isalpha(line[i])
    /\ pc' = "thrown"
    /\ res' = Error("Invalid character")
    /\ UNCHANGED <<i, tokens>> /\ LexFrame

\* return tokens; main then calls infixToPostfix(tokens)
LexReturn ==
    /\ pc = "tokenize" /\ i > Len(line)
    /\ pc' = "infixToPostfix"
    /\ k' = 1 /\ out' = <<>> /\ ops' = <<>>
    /\ UNCHANGED <<line, i, tokens, m, st, applied, res, history, lastResult,
                   hasResult, nread>>

Tokenize ==
    \/ LexSpace \/ LexNumber \/ LexLeftParen \/ LexRightParen \/ LexPowPow
    \/ LexOperator \/ LexFunction \/ LexConstant \/ LexUnknownName
    \/ LexInvalid \/ LexReturn

-----------------------------------------------------------------------------
(* infixToPostfix: one action per iteration of each loop *)

Top(s) == s[Len(s)]
Pop(s) == SubSeq(s, 1, Len(s) - 1)

\* the condition of the while loop of case OPERATOR
OperatorPopCond(s, tok) ==
    /\ s # <<>>
    /\ \/ Top(s).type = "FUNCTION"
       \/ /\ Top(s).type = "OPERATOR"
          /\ \/ opPrec(Top(s).text) > opPrec(tok.text)
             \/ /\ opPrec(Top(s).text) = opPrec(tok.text)
                /\ ~opRight(tok.text)

\* the loop of case RIGHT_PAREN popping only when a '(' is on the stack
ParenPopCondMatched(s) ==
    /\ s # <<>> /\ Top(s).type # "LEFT_PAREN"
    /\ \E j \in 1..Len(s) : s[j].type = "LEFT_PAREN"

\* the condition of the while loop of case RIGHT_PAREN
ParenPopCond(s) == s # <<>> /\ Top(s).type # "LEFT_PAREN"

\* ops after the loop of case RIGHT_PAREN: if (!ops.empty()) ops.pop();
AfterParen(s) == IF s # <<>> THEN Pop(s) ELSE s

\* if (!ops.empty() && ops.top().type == FUNCTION)
FunctionOnTop(s) == s # <<>> /\ Top(s).type = "FUNCTION"

InConv == pc = "infixToPostfix" /\ k <= Len(tokens)

ConvFrame == UNCHANGED <<pc, line, i, tokens, m, st, applied, res, history,
                         lastResult, hasResult, nread>>

ConvNumber ==
    /\ InConv /\ tokens[k].type = "NUMBER"
    /\ out' = Append(out, tokens[k])
    /\ k' = k + 1
    /\ UNCHANGED ops /\ ConvFrame

ConvFunction ==
    /\ InConv /\ tokens[k].type = "FUNCTION"
    /\ ops' = Append(ops, tokens[k])
    /\ k' = k + 1
    /\ UNCHANGED out /\ ConvFrame

ConvOperatorPop ==
    /\ InConv /\ tokens[k].type = "OPERATOR"
    /\ OperatorPopCond(ops, tokens[k])
    /\ out' = Append(out, Top(ops))
    /\ ops' = Pop(ops)
    /\ UNCHANGED k /\ ConvFrame

ConvOperatorPush ==
    /\ InConv /\ tokens[k].type = "OPERATOR"
    /\ ~OperatorPopCond(ops, tokens[k])
    /\ ops' = Append(ops, tokens[k])
    /\ k' = k + 1
    /\ UNCHANGED out /\ ConvFrame

ConvLeftParen ==
    /\ InConv /\ tokens[k].type = "LEFT_PAREN"
    /\ ops' = Append(ops, tokens[k])
    /\ k' = k + 1
    /\ UNCHANGED out /\ ConvFrame

ConvRightParenPop ==
    /\ InConv /\ tokens[k].type = "RIGHT_PAREN"
    /\ ParenPopCond(ops)
    /\ out' = Append(out, Top(ops))
    /\ ops' = Pop(ops)
    /\ UNCHANGED k /\ ConvFrame

ConvRightParenClose ==
    /\ InConv /\ tokens[k].type = "RIGHT_PAREN"
    /\ ~ParenPopCond(ops)
    /\ LET s1 == AfterParen(ops)
       IN  IF FunctionOnTop(s1)
           THEN out' = Append(out, Top(s1)) /\ ops' = Pop(s1)
           ELSE out' = out /\ ops' = s1
    /\ k' = k + 1
    /\ ConvFrame

\* while (!ops.empty()) after the for loop
ConvFlushPop ==
    /\ pc = "infixToPostfix" /\ k > Len(tokens)
    /\ ops # <<>>
    /\ out' = Append(out, Top(ops))
    /\ ops' = Pop(ops)
    /\ UNCHANGED k /\ ConvFrame

\* return out; main then calls evalPostfix(postfix)
ConvReturn ==
    /\ pc = "infixToPostfix" /\ k > Len(tokens)
    /\ ops = <<>>
    /\ pc' = "evalPostfix"
    /\ m' = 1 /\ st' = <<>> /\ applied' = NotApplied
    /\ UNCHANGED <<line, i, tokens, k, out, ops, res, history, lastResult,
                   hasResult, nread>>

Convert ==
    \/ ConvNumber \/ ConvFunction \/ ConvOperatorPop \/ ConvOperatorPush
    \/ ConvLeftParen \/ ConvRightParenPop \/ ConvRightParenClose
    \/ ConvFlushPop \/ ConvReturn

RECURSIVE ConvRun(_, _, _, _)
\* infixToPostfix as a function: the loops above run from (kk, o, s) to the end
ConvRun(in, kk, o, s) ==
    IF kk > Len(in)
    THEN IF s # <<>> THEN ConvRun(in, kk, Append(o, Top(s)), Pop(s)) ELSE o
    ELSE LET tok == in[kk]
         IN  CASE tok.type = "NUMBER" -> ConvRun(in, kk + 1, Append(o, tok), s)
               [] tok.type = "FUNCTION" -> ConvRun(in, kk + 1, o, Append(s, tok))
               [] tok.type = "OPERATOR" ->
                    IF OperatorPopCond(s, tok)
                    THEN ConvRun(in, kk, Append(o, Top(s)), Pop(s))
                    ELSE ConvRun(in, kk + 1, o, Append(s, tok))
               [] tok.type = "LEFT_PAREN" -> ConvRun(in, kk + 1, o, Append(s, tok))
               [] tok.type = "RIGHT_PAREN" ->
                    IF ParenPopCond(s)
                    THEN ConvRun(in, kk, Append(o, Top(s)), Pop(s))
                    ELSE LET s1 == AfterParen(s)
                         IN  IF FunctionOnTop(s1)
                             THEN ConvRun(in, kk + 1, Append(o, Top(s1)), Pop(s1))
                             ELSE ConvRun(in, kk + 1, o, s1)

infixToPostfix(in) == ConvRun(in, 1, <<>>, <<>>)

-----------------------------------------------------------------------------
(* evalPostfix: one action per iteration of the for loop *)

\* What st.top() reads when st is empty.  The behaviour is undefined: the
\* build may stop the process, or go on with whatever the memory holds.
Garbage == {Zero, Rat(7, 1)}

\* b == 0
IsZero(v) == v = Zero

\* the arithmetic of the OPERATOR branch, for '/' with b # 0
ApplyOperator(text, a, b) ==
    CASE text = <<"+">> -> Add(a, b)
      [] text = <<"-">> -> Sub(a, b)
      [] text = <<"*">> -> Mul(a, b)
      [] text = <<"/">> -> Div(a, b)
      [] text \in {<<"^">>, <<"*", "*">>} -> Pow(a, b)

\* the OPERATOR branch without the test of b
DivideByZeroUnchecked(text, b) == FALSE

\* tok.text=="/" && b == 0
DivideByZero(text, b) == text = <<"/">> /\ IsZero(b)


InEval == pc = "evalPostfix" /\ m <= Len(out)

EvalFrame == UNCHANGED <<line, i, tokens, k, out, ops, history, lastResult,
                         hasResult, nread>>

EvalNumber ==
    /\ InEval /\ out[m].type = "NUMBER"
    /\ LET v == Stod(out[m].text)
       IN  IF v = StodInvalid
           THEN /\ pc' = "thrown" /\ res' = Error("stod")
                /\ UNCHANGED <<m, st>>
           ELSE /\ st' = Append(st, v) /\ m' = m + 1
                /\ UNCHANGED <<pc, res>>
    /\ UNCHANGED applied /\ EvalFrame

EvalFunction ==
    /\ InEval /\ out[m].type = "FUNCTION"
    /\ st # <<>>
    /\ st' = IF out[m].text \in functions
             THEN Append(Pop(st), ApplyFunction(out[m].text, Top(st)))
             ELSE Pop(st)
    /\ applied' = Applied(m, out[m].text, Top(st), <<>>, FALSE)
    /\ m' = m + 1
    /\ UNCHANGED <<pc, res>> /\ EvalFrame

\* st.top() and st.pop() on an empty stack
EvalFunctionEmpty ==
    /\ InEval /\ out[m].type = "FUNCTION"
    /\ st = <<>>
    /\ \/ /\ pc' = "crashed"
          /\ applied' = Applied(m, out[m].text, <<>>, <<>>, TRUE)
          /\ UNCHANGED <<m, st, res>>
       \/ \E v \in Garbage :
             /\ st' = IF out[m].text \in functions
                      THEN <<ApplyFunction(out[m].text, v)>> ELSE <<>>
             /\ applied' = Applied(m, out[m].text, v, <<>>, TRUE)
             /\ m' = m + 1
             /\ UNCHANGED <<pc, res>>
    /\ EvalFrame

EvalOperator ==
    /\ InEval /\ out[m].type = "OPERATOR"
    /\ Len(st) >= 2
    /\ LET b == Top(st)
           a == Top(Pop(st))
       IN  /\ applied' = Applied(m, out[m].text, a, b, FALSE)
           /\ IF DivideByZero(out[m].text, b)
              THEN /\ pc' = "thrown" /\ res' = Error("Cannot divide by zero")
                   /\ st' = Pop(Pop(st))
                   /\ UNCHANGED m
              ELSE /\ st' = Append(Pop(Pop(st)), ApplyOperator(out[m].text, a, b))
                   /\ m' = m + 1
                   /\ UNCHANGED <<pc, res>>
    /\ EvalFrame

\* st.top() and st.pop() with fewer than two values on the stack
EvalOperatorShort ==
    /\ InEval /\ out[m].type = "OPERATOR"
    /\ Len(st) < 2
    /\ \/ /\ pc' = "crashed"
          /\ applied' = Applied(m, out[m].text, <<>>, <<>>, TRUE)
          /\ UNCHANGED <<m, st, res>>
       \/ \E a \in Garbage, b \in (IF st # <<>> THEN {Top(st)} ELSE Garbage) :
             /\ applied' = Applied(m, out[m].text, a, b, TRUE)
             /\ IF DivideByZero(out[m].text, b)
                THEN /\ pc' = "thrown" /\ res' = Error("Cannot divide by zero")
                     /\ st' = <<>>
                     /\ UNCHANGED m
                ELSE /\ st' = <<ApplyOperator(out[m].text, a, b)>>
                     /\ m' = m + 1
                     /\ UNCHANGED <<pc, res>>
    /\ EvalFrame

\* a LEFT_PAREN or RIGHT_PAREN token matches no branch of the loop body
EvalSkip ==
    /\ InEval /\ out[m].type \in {"LEFT_PAREN", "RIGHT_PAREN"}
    /\ m' = m + 1
    /\ UNCHANGED <<pc, st, applied, res>> /\ EvalFrame

\* the end of evalPostfix testing st.empty() instead of st.size() != 1
EvalReturnNonEmpty ==
    /\ pc = "evalPostfix" /\ m > Len(out)
    /\ IF st = <<>>
       THEN pc' = "thrown" /\ res' = Error("Invalid expression")
       ELSE pc' = "returned" /\ res' = Value(Top(st))
    /\ UNCHANGED <<m, st, applied>> /\ EvalFrame

\* if (st.size() != 1) throw ...; return st.top();
EvalReturn ==
    /\ pc = "evalPostfix" /\ m > Len(out)
    /\ IF Len(st) # 1
       THEN pc' = "thrown" /\ res' = Error("Invalid expression")
       ELSE pc' = "returned" /\ res' = Value(Top(st))
    /\ UNCHANGED <<m, st, applied>> /\ EvalFrame

Evaluate ==
    \/ EvalNumber \/ EvalFunction \/ EvalFunctionEmpty \/ EvalOperator
    \/ EvalOperatorShort \/ EvalSkip \/ EvalReturn

-----------------------------------------------------------------------------
(* main: the read loop *)

\* the lines the model feeds to getline
Lines ==
    { <<>>,
      <<"e", "x", "i", "t">>, <<"h", "e", "l", "p">>, <<"c", "l", "e", "a", "r">>,
      <<"h", "i", "s", "t", "o", "r", "y">>,
      <<"2", "+", "3", "*", "4">>,
      <<"(", "2", "+", "3", ")", "*", "4">>,
      <<"2", "^", "3", "^", "2">>,
      <<"2", "*", "*", "3">>,
      <<"s", "q", "r", "t", "(", "1", "6", ")">>,
      <<"1", "0", "/", "0">>,
      <<"e", "/", "0">>,
      <<"2", " ", "+">>,
      <<"-", "5">>,
      <<"+", "3">>,
      <<"*", "2">>,
      <<"/", "0">>,
      <<"s", "q", "r", "t">>,
      <<"(", "2">>,
      <<"2", ")">>,
      <<".">>,
      <<"x">>,
      <<"2", "#">> }

Commands ==
    { <<"e", "x", "i", "t">>, <<"h", "e", "l", "p">>, <<"?">>,
      <<"c", "l", "e", "a", "r">>, <<"h", "i", "s", "t", "o", "r", "y">> }

AtPrompt == pc = "prompt" /\ nread < MaxLines

PipeVars == <<line, i, tokens, k, out, ops, m, st, applied, res>>

\* if (!getline(cin, line)) break;
ReadEOF ==
    /\ pc = "prompt"
    /\ pc' = "exited"
    /\ UNCHANGED <<PipeVars, history, lastResult, hasResult, nread>>

\* if (line.empty()) continue;
ReadBlank ==
    /\ AtPrompt /\ <<>> \in Lines
    /\ nread' = nread + 1
    /\ UNCHANGED <<pc, PipeVars, history, lastResult, hasResult>>

ReadExit ==
    /\ AtPrompt /\ <<"e", "x", "i", "t">> \in Lines
    /\ pc' = "exited"
    /\ nread' = nread + 1
    /\ UNCHANGED <<PipeVars, history, lastResult, hasResult>>

ReadHelp ==
    /\ AtPrompt /\ Lines \cap {<<"h", "e", "l", "p">>, <<"?">>} # {}
    /\ nread' = nread + 1
    /\ UNCHANGED <<pc, PipeVars, history, lastResult, hasResult>>

ReadClear ==
    /\ AtPrompt /\ <<"c", "l", "e", "a", "r">> \in Lines
    /\ history' = <<>>
    /\ hasResult' = FALSE
    /\ nread' = nread + 1
    /\ UNCHANGED <<pc, PipeVars, lastResult>>

ReadHistory ==
    /\ AtPrompt /\ <<"h", "i", "s", "t", "o", "r", "y">> \in Lines
    /\ nread' = nread + 1
    /\ UNCHANGED <<pc, PipeVars, history, lastResult, hasResult>>

\* hasResult && string("+-*/^").find(line[0]) != npos
Chains(l) == hasResult /\ IsOpChar(l[1])

\* Any other line: the chaining prefix, then the call of tokenize.  The model
\* follows a chained line only when lastResult is a double it computes
\* exactly (to_string of the others is not modelled).
ReadExpression ==
    /\ AtPrompt
    /\ \E l \in Lines \ (Commands \cup {<<>>}) :
          /\ Chains(l) => IsRat(lastResult)
          /\ line' = IF Chains(l) THEN to_string(lastResult) \o l ELSE l
    /\ pc' = "tokenize"
    /\ i' = 1 /\ tokens' = <<>>
    /\ nread' = nread + 1
    /\ UNCHANGED <<k, out, ops, m, st, applied, res, history, lastResult, hasResult>>

\* the end of the try block, after evalPostfix returned
Commit ==
    /\ pc = "returned"
    /\ history' = Append(history, line)
    /\ lastResult' = res.v
    /\ hasResult' = TRUE
    /\ pc' = "prompt"
    /\ UNCHANGED <<PipeVars, nread>>

\* a catch block that also drops the last result
CatchResets ==
    /\ pc = "thrown"
    /\ pc' = "prompt"
    /\ hasResult' = FALSE
    /\ UNCHANGED <<PipeVars, history, lastResult, nread>>

\* catch (const exception &ex)
Catch ==
    /\ pc = "thrown"
    /\ pc' = "prompt"
    /\ UNCHANGED <<PipeVars, history, lastResult, hasResult, nread>>

Main ==
    \/ ReadEOF \/ ReadBlank \/ ReadExit \/ ReadHelp \/ ReadClear \/ ReadHistory
    \/ ReadExpression \/ Commit \/ Catch

-----------------------------------------------------------------------------
(* Specifications *)

Idle ==
    /\ line = <<>> /\ i = 1 /\ tokens = <<>>
    /\ k = 1 /\ out = <<>> /\ ops = <<>>
    /\ m = 1 /\ st = <<>> /\ applied = NotApplied /\ res = NoRes
    /\ history = <<>> /\ lastResult = Zero /\ hasResult = FALSE /\ nread = 0

\* main from its first prompt
Init == pc = "prompt" /\ Idle

Next == Main \/ Tokenize \/ Convert \/ Evaluate

Spec == Init /\ [][Next]_vars


RECURSIVE SeqsUpTo(_, _)
\* the sequences over S of length at most n
SeqsUpTo(S, n) ==
    IF n = 0 THEN {<<>>}
    ELSE LET prev == SeqsUpTo(S, n - 1)
         IN  prev \cup {Append(s, c) : s \in {x \in prev : Len(x) = n - 1}, c \in S}

\* the characters of the input lines of LineSpec
LineAlphabet == {"0", "2", ".", "e", "+", "/", "*", "(", ")", " ", "l", "n", "#"}

LineInputs == SeqsUpTo(LineAlphabet, MaxLineLen)

\* one call of the pipeline tokenize, infixToPostfix, evalPostfix on any line
InitLine ==
    /\ pc = "tokenize"
    /\ line \in LineInputs
    /\ i = 1 /\ tokens = <<>>
    /\ k = 1 /\ out = <<>> /\ ops = <<>>
    /\ m = 1 /\ st = <<>> /\ applied = NotApplied /\ res = NoRes
    /\ history = <<>> /\ lastResult = Zero /\ hasResult = FALSE /\ nread = 0

NextLine == Tokenize \/ Convert \/ Evaluate

LineSpec == InitLine /\ [][NextLine]_vars

NumberTok(c) == Token(<<c>>, "NUMBER")
OperatorTok(text) == Token(text, "OPERATOR")
OperatorTexts == {<<"+">>, <<"-">>, <<"*">>, <<"/">>, <<"^">>, <<"*", "*">>}
LParenTok == Token(<<"(">>, "LEFT_PAREN")
RParenTok == Token(<<")">>, "RIGHT_PAREN")
SqrtTok == Token(<<"s", "q", "r", "t">>, "FUNCTION")

\* the tokens of the arbitrary token sequences of TokenSpec
TokenAlphabet ==
    {NumberTok("0"), NumberTok("2"), LParenTok, RParenTok, SqrtTok}
    \cup {OperatorTok(t) : t \in {<<"+">>, <<"*">>, <<"/">>, <<"^">>}}

WFNumbers == {NumberTok("2"), NumberTok("3")}

\* the well-formed infix sequences of exactly n tokens:
\*   E ::= number | E operator E | ( E ) | function ( E )
WFExact[n \in 0..(MaxWFToks + 1)] ==
    IF n = 0 THEN {}
    ELSE IF n = 1 THEN {<<t>> : t \in WFNumbers}
    ELSE {<<LParenTok>> \o e \o <<RParenTok>> : e \in WFExact[n - 2]}
         \cup (IF n >= 4
               THEN {<<SqrtTok, LParenTok>> \o e \o <<RParenTok>> : e \in WFExact[n - 3]}
               ELSE {})
         \cup UNION {{l \o <<OperatorTok(t)>> \o r :
                          l \in WFExact[j], r \in WFExact[n - 1 - j], t \in OperatorTexts}
                     : j \in 1..(n - 2)}

\* the expressions the specification gives results for
Examples ==
    { <<NumberTok("2"), OperatorTok(<<"+">>), NumberTok("3"), OperatorTok(<<"*">>),
        NumberTok("4")>>,
      <<LParenTok, NumberTok("2"), OperatorTok(<<"+">>), NumberTok("3"), RParenTok,
        OperatorTok(<<"*">>), NumberTok("4")>>,
      <<NumberTok("2"), OperatorTok(<<"^">>), NumberTok("3"), OperatorTok(<<"^">>),
        NumberTok("2")>> }

WellFormed == UNION {WFExact[n] : n \in 1..MaxWFToks} \cup Examples

TokenInputs == SeqsUpTo(TokenAlphabet, MaxToks) \cup WellFormed

\* one call of infixToPostfix and evalPostfix on any token sequence
InitTokens ==
    /\ pc = "infixToPostfix"
    /\ tokens \in TokenInputs
    /\ line = <<>> /\ i = 1
    /\ k = 1 /\ out = <<>> /\ ops = <<>>
    /\ m = 1 /\ st = <<>> /\ applied = NotApplied /\ res = NoRes
    /\ history = <<>> /\ lastResult = Zero /\ hasResult = FALSE /\ nread = 0

NextTokens == Convert \/ Evaluate

TokenSpec == InitTokens /\ [][NextTokens]_vars


-----------------------------------------------------------------------------
(* Agreement of the two forms of infixToPostfix in the model *)

ConvRunAgrees == pc # "infixToPostfix" => out = infixToPostfix(tokens)

-----------------------------------------------------------------------------
(* C1: evaluation of the postfix sequence against a reference evaluation *)

\* the precedence table and the associativity rules of the specification
RefPrec(text) ==
    IF text \in {<<"^">>, <<"*", "*">>} THEN 3
    ELSE IF text \in {<<"*">>, <<"/">>} THEN 2 ELSE 1
RefRight(text) == text \in {<<"^">>, <<"*", "*">>}

\* the number of parentheses open before position p
Depth(s, p) ==
    Cardinality({q \in 1..(p - 1) : s[q].type = "LEFT_PAREN"})
    - Cardinality({q \in 1..(p - 1) : s[q].type = "RIGHT_PAREN"})

SetMin(S) == CHOOSE x \in S : \A y \in S : x <= y
SetMax(S) == CHOOSE x \in S : \A y \in S : x >= y

RECURSIVE RefEval(_)
\* The value of a well-formed infix sequence: it splits at the operator
\* outside all parentheses that binds loosest, the rightmost such for a
\* left-associative operator and the leftmost for a right-associative one.
RefEval(s) ==
    LET top == {p \in 1..Len(s) : s[p].type = "OPERATOR" /\ Depth(s, p) = 0}
    IN  IF top # {}
        THEN LET low == SetMin({RefPrec(s[p].text) : p \in top})
                 cand == {p \in top : RefPrec(s[p].text) = low}
                 p == IF \E q \in cand : RefRight(s[q].text)
                      THEN SetMin(cand) ELSE SetMax(cand)
                 l == RefEval(SubSeq(s, 1, p - 1))
                 r == RefEval(SubSeq(s, p + 1, Len(s)))
             IN  IF l.kind = "error" THEN l
                 ELSE IF r.kind = "error" THEN r
                 ELSE IF s[p].text = <<"/">> /\ r.v = Zero
                      THEN Error("Cannot divide by zero")
                      ELSE Value(ApplyOperator(s[p].text, l.v, r.v))
        ELSE IF Len(s) = 1 THEN Value(Stod(s[1].text))
        ELSE IF s[1].type = "FUNCTION"
             THEN LET x == RefEval(SubSeq(s, 3, Len(s) - 1))
                  IN  IF x.kind = "error" THEN x
                      ELSE Value(ApplyFunction(s[1].text, x.v))
             ELSE RefEval(SubSeq(s, 2, Len(s) - 1))

Finished == pc \in {"returned", "thrown", "crashed"}

\* C1: for every well-formed infix token sequence, evalPostfix of
\* infixToPostfix ends with the value (or the division by zero) of the
\* reference evaluation, and never reads an empty stack.
C1_RoundTrip ==
    tokens \in WellFormed =>
        /\ pc # "crashed" /\ (applied # NotApplied => ~applied.ub)
        /\ Finished => res = RefEval(tokens)

C1_Witness ==
    /\ tokens = <<NumberTok("2"), OperatorTok(<<"+">>), NumberTok("3"),
                  OperatorTok(<<"*">>), NumberTok("4")>>
    /\ pc = "returned" /\ res = Value(Rat(14, 1))

-----------------------------------------------------------------------------
(* C2 *)

\* C2: evalPostfix never reads an empty evaluation stack: an Operator token
\* met with fewer than two values, or a Function token met with none, does
\* not reach st.top().
C2_NeverReadsEmptyStack == applied # NotApplied => ~applied.ub

-----------------------------------------------------------------------------
(* C3 *)

\* q is the double a / b
IsQuotient(q, a, b) ==
    \/ q = Opq("/", a, b)
    \/ IsRat(a) /\ IsRat(b) /\ IsRat(q) /\ Mul(q, b) = a

\* the latest token evalPostfix applied was '/', and it read its operands
DivApplied == applied # NotApplied /\ applied.op = <<"/">> /\ applied.b # <<>>

\* C3: when '/' is applied with b = 0 evaluation ends with the
\* divide-by-zero error and returns no value; with b # 0 it pushes a / b
\* and goes on to the next token.
C3_DivideByZero ==
    DivApplied =>
        IF applied.b = Zero
        THEN pc = "thrown" /\ res = Error("Cannot divide by zero")
        ELSE /\ res # Error("Cannot divide by zero")
             /\ m > applied.at
             /\ m = applied.at + 1 => st # <<>> /\ IsQuotient(Top(st), applied.a, applied.b)

C3_Witness ==
    /\ tokens = <<NumberTok("2"), OperatorTok(<<"/">>), NumberTok("0")>>
    /\ DivApplied /\ applied.a = Rat(2, 1) /\ applied.b = Zero
    /\ pc = "thrown"

-----------------------------------------------------------------------------
(* C4 *)

\* C4: the sequence infixToPostfix returns holds only Number, Operator and
\* Function tokens.
C4_NoParenInPostfix ==
    pc # "infixToPostfix" =>
        \A j \in 1..Len(out) : out[j].type \in {"NUMBER", "OPERATOR", "FUNCTION"}

-----------------------------------------------------------------------------
(* C5 *)

RECURSIVE OpenBefore(_, _)
\* the number of '(' before position p that no ')' before p closes
OpenBefore(s, p) ==
    IF p = 1 THEN 0
    ELSE LET d == OpenBefore(s, p - 1)
         IN  IF s[p - 1].type = "LEFT_PAREN" THEN d + 1
             ELSE IF s[p - 1].type = "RIGHT_PAREN" /\ d > 0 THEN d - 1
             ELSE d

\* the positions of the ')' tokens with no matching '(' before them
UnmatchedRight(s) ==
    {p \in 1..Len(s) : s[p].type = "RIGHT_PAREN" /\ OpenBefore(s, p) = 0}

Without(s, p) == SubSeq(s, 1, p - 1) \o SubSeq(s, p + 1, Len(s))

-----------------------------------------------------------------------------
(* C6 *)

\* C6: a op1 b op2 c with op1, op2 of equal precedence becomes a b op1 c op2
\* when op2 is left-associative and a b c op2 op1 when it is
\* right-associative; 2 ^ 3 ^ 2 evaluates to 512.
C6_Associativity ==
    /\ ( /\ pc # "infixToPostfix"
         /\ Len(tokens) = 5
         /\ \A j \in {1, 3, 5} : tokens[j].type = "NUMBER"
         /\ \A j \in {2, 4} : tokens[j].type = "OPERATOR"
         /\ RefPrec(tokens[2].text) = RefPrec(tokens[4].text) )
       => out = IF RefRight(tokens[4].text)
                THEN <<tokens[1], tokens[3], tokens[5], tokens[4], tokens[2]>>
                ELSE <<tokens[1], tokens[3], tokens[2], tokens[5], tokens[4]>>
    /\ ( /\ Finished
         /\ tokens = <<NumberTok("2"), OperatorTok(<<"^">>), NumberTok("3"),
                       OperatorTok(<<"^">>), NumberTok("2")>> )
       => res = Value(Rat(512, 1))

C6_Witness ==
    /\ tokens = <<NumberTok("2"), OperatorTok(<<"*", "*">>), NumberTok("3"),
                  OperatorTok(<<"^">>), NumberTok("2")>>
    /\ out = <<NumberTok("2"), NumberTok("3"), NumberTok("2"),
               OperatorTok(<<"^">>), OperatorTok(<<"*", "*">>)>>
    /\ pc = "returned" /\ res = Value(Rat(512, 1))

-----------------------------------------------------------------------------
(* C7 *)

\* C7: evalPostfix returns a value only with all tokens processed and exactly
\* one value on the stack, and that value is the result; with all tokens
\* processed and zero or several values on the stack it ends with the
\* malformed-expression error.
C7_ExactlyOneValue ==
    /\ pc = "returned" => m > Len(out) /\ Len(st) = 1 /\ res = Value(st[1])
    /\ (Finished /\ pc # "crashed" /\ m > Len(out) /\ Len(st) # 1)
         => pc = "thrown" /\ res = Error("Invalid expression")

C7_Witness ==
    /\ tokens = <<NumberTok("2"), NumberTok("0")>>
    /\ m > Len(out) /\ Len(st) = 2
    /\ pc = "thrown" /\ res = Error("Invalid expression")

-----------------------------------------------------------------------------
(* C8 *)

\* the iterations the loop of the current stage has left, at most:
\* tokenize moves i forward in every iteration; infixToPostfix moves k
\* forward or pops ops, and pushes at most once per token; evalPostfix moves
\* m forward
StageSteps ==
    CASE pc = "tokenize" -> Len(line) + 1 - i
      [] pc = "infixToPostfix" -> 2 * (Len(tokens) + 1 - k) + Len(ops)
      [] pc = "evalPostfix" -> Len(out) + 1 - m
      [] OTHER -> 0

\* the stages still to run, the current one included
StagesLeft ==
    CASE pc = "tokenize" -> 3
      [] pc = "infixToPostfix" -> 2
      [] pc = "evalPostfix" -> 1
      [] OTHER -> 0

\* C8: every stage of the pipeline terminates on every input line: each
\* step of tokenize, infixToPostfix and evalPostfix either ends its stage
\* (return or throw) or uses up one of the finitely many iterations its loop
\* has left, so no line makes the pipeline loop forever.
C8_Terminates ==
    /\ [](StageSteps >= 0)
    /\ [][ \/ StagesLeft' < StagesLeft
           \/ StagesLeft' = StagesLeft /\ StageSteps' < StageSteps ]_vars

C8_Witness ==
    /\ line = <<"(", "2", ")">> /\ pc = "returned" /\ res = Value(Rat(2, 1))
    /\ i = Len(line) + 1 /\ k = Len(tokens) + 1 /\ m = Len(out) + 1

-----------------------------------------------------------------------------
(* C9 *)

\* C9: every NUMBER token of tokenize is a literal of the grammar of isNumber.
C9_NumberTokensValid ==
    \A j \in 1..Len(tokens) :
        tokens[j].type = "NUMBER" => isNumber(tokens[j].text)

-----------------------------------------------------------------------------
(* C10 *)

\* C10: history, lastResult and hasResult change only at the end of a
\* successfully evaluated line or on the clear command; a line that ends in
\* an error leaves them as they were.
C10_ErrorsKeepState ==
    [][ (<<history, lastResult, hasResult>>' # <<history, lastResult, hasResult>>)
        => \/ pc = "returned" /\ res.kind = "value"
           \/ pc = "prompt" /\ pc' = "prompt" /\ history' = <<>> /\ ~hasResult'
              /\ lastResult' = lastResult ]_vars

\* an operator-led line read after a failed line, chained onto the result of
\* the last successful one
C10_Witness ==
    /\ pc = "tokenize" /\ res = Error("Unknown name")
    /\ hasResult /\ lastResult = Rat(14, 1)
    /\ history = << <<"2", "+", "3", "*", "4">> >>
    /\ line = to_string(Rat(14, 1)) \o <<"+", "3">>

====
